---- MODULE Spec2Model ----
(***************************************************************************)
(* Model of the registration / authentication path of the Splitwise clone: *)
(* the HTTP handlers (auth_handler.go), the authentication service         *)
(* (auth_service.go), the pgx repository and the users table of the        *)
(* migration.  Every HTTP request is a process; requests interleave at     *)
(* the granularity of the database statements they execute.                *)
(***************************************************************************)
EXTENDS Integers, Sequences, FiniteSets, TLC

VARIABLES
    users,       \* rows of the users table
    calls,       \* per request slot: the signup that is between its two statements
    resp,        \* the most recently completed request, with what the service returned
    registered,  \* history: the signups the service reported as successful
    svc,         \* in-process state: service.repo and the package variables
                 \* jwtSecret and jwtExpiry
    trace        \* the last request that passed the trace middleware

vars == <<users, calls, resp, registered, svc, trace>>

----------------------------------------------------------------------------
(* Bounds of the model *)

MaxUsers == 3          \* rows the table may hold
MaxClock == 1          \* last tick a request can read from the clock
TicksPerSecond == 1    \* clock resolution: ticks in one second

MaxIds == 8            \* distinct values of a header and of generated IDs

Procs == {1, 2}        \* request slots served concurrently

----------------------------------------------------------------------------
(* Values *)

Emails == {"a@x.com", "b@x.com"}
BadEmail == "not-an-email"

NoPhone == "nil"
Phones == {"+15550001"}
BadPhone == "555"

\* A password is a byte string; text names its content and len its length in
\* bytes.  Passwords with the same text are prefixes of one another.
Pw(text, len) == [text |-> text, len |-> len]
P72 == Pw("p", 72)
P73 == Pw("p", 73)
Q8 == Pw("q", 8)
Q7 == Pw("q", 7)
EmptyPw == Pw("", 0)

Salts == {"s1"}

ErrNil == "nil"
ErrUserAlreadyExists == "user with this email already exists"
ErrInvalidPassword == "invalid password"
ErrUserNotFound == "user not found"
ErrTokenGeneration == "failed to generate token"
ErrNoRows == "pgx: no rows in result set"
ErrUniqueViolation == "pgconn: SQLSTATE 23505 unique_violation"
ErrStorage == "pgx: connection failure"
ErrDeadline == "context deadline exceeded"
ErrPasswordTooLong == "bcrypt: password length exceeds 72 bytes"
ErrMismatchedHashAndPassword == "bcrypt: hashedPassword is not the hash of the given password"

\* What the environment can do to one database statement: let it run, break
\* the connection, or let the caller's deadline expire first.
StoreFaults == {ErrNil, ErrStorage, ErrDeadline}

\* What token.SignedString returns: nil, or an error of the signing method
ErrSigning == "jwt: signing method returned an error"
SignOutcomes == {ErrNil, ErrSigning}

jwtExpiry == 86400     \* seconds
DevSecret == "dev-secret-key-change-in-production"

\* NewService(repo) and the package-level var block
NewService ==
    [repo |-> "user.Repository", jwtSecret |-> DevSecret,
     jwtExpiry |-> jwtExpiry]
Issuer == "splitwise-clone"
BcryptMaxBytes == 72

NoHash == [salt |-> "", key |-> EmptyPw]

NoRow == [id |-> 0, firstName |-> "", lastName |-> "", dateOfBirth |-> "nil",
          email |-> "", passwordHash |-> NoHash, phoneNumber |-> NoPhone,
          deleted |-> FALSE]

\* uuid.UUID.String(): the textual form of an identifier
UUIDString(id) == <<"uuid", id>>

EmptyToken == [signed |-> FALSE, userId |-> 0, sub |-> <<>>, iss |-> "",
               iat |-> 0, nbf |-> 0, exp |-> 0]

Min(a, b) == IF a < b THEN a ELSE b

----------------------------------------------------------------------------
(* The users table and the repository *)

\* Variant: the table without its UNIQUE (email) constraint
UniqueViolation_NoEmailConstraint(tbl, params) ==
    /\ params.phoneNumber # NoPhone
    /\ \E u \in tbl : u.phoneNumber = params.phoneNumber

\* UNIQUE (email), UNIQUE (phone_number): both constraints range over every
\* row of the table; NULL phone numbers never conflict.
UniqueViolation(tbl, params) ==
    \/ \E u \in tbl : u.email = params.email
    \/ /\ params.phoneNumber # NoPhone
       /\ \E u \in tbl : u.phoneNumber = params.phoneNumber

\* Variant: an insert whose row is written although the call reports a fault
CreateUser_RowDespiteError(tbl, params, fault) ==
    LET u == [id |-> Cardinality(tbl) + 1,
              firstName |-> params.firstName,
              lastName |-> params.lastName,
              dateOfBirth |-> params.dateOfBirth,
              email |-> params.email,
              passwordHash |-> params.passwordHash,
              phoneNumber |-> params.phoneNumber,
              deleted |-> FALSE]
    IN IF UniqueViolation(tbl, params)
       THEN [user |-> NoRow, err |-> ErrUniqueViolation, tbl |-> tbl]
       ELSE IF fault # ErrNil
       THEN [user |-> NoRow, err |-> fault, tbl |-> tbl \cup {u}]
       ELSE [user |-> u, err |-> ErrNil, tbl |-> tbl \cup {u}]

\* Variant: an insert checked against the email constraint only
CreateUser_NoPhoneConstraint(tbl, params, fault) ==
    IF fault # ErrNil
    THEN [user |-> NoRow, err |-> fault, tbl |-> tbl]
    ELSE IF \E u \in tbl : u.email = params.email
    THEN [user |-> NoRow, err |-> ErrUniqueViolation, tbl |-> tbl]
    ELSE LET u == [id |-> Cardinality(tbl) + 1,
                   firstName |-> params.firstName,
                   lastName |-> params.lastName,
                   dateOfBirth |-> params.dateOfBirth,
                   email |-> params.email,
                   passwordHash |-> params.passwordHash,
                   phoneNumber |-> params.phoneNumber,
                   deleted |-> FALSE]
         IN [user |-> u, err |-> ErrNil, tbl |-> tbl \cup {u}]

\* INSERT INTO users ... RETURNING ...
CreateUser(tbl, params, fault) ==
    IF fault # ErrNil
    THEN [user |-> NoRow, err |-> fault, tbl |-> tbl]
    ELSE IF UniqueViolation(tbl, params)
    THEN [user |-> NoRow, err |-> ErrUniqueViolation, tbl |-> tbl]
    ELSE LET u == [id |-> Cardinality(tbl) + 1,
                   firstName |-> params.firstName,
                   lastName |-> params.lastName,
                   dateOfBirth |-> params.dateOfBirth,
                   email |-> params.email,
                   passwordHash |-> params.passwordHash,
                   phoneNumber |-> params.phoneNumber,
                   deleted |-> FALSE]
         IN [user |-> u, err |-> ErrNil, tbl |-> tbl \cup {u}]

\* Variant: the lookup without its deleted_at IS NULL condition
GetUserByEmail_IgnoreDeleted(tbl, email, fault) ==
    LET found == {u \in tbl : u.email = email}
    IN IF fault # ErrNil THEN [user |-> NoRow, err |-> fault]
       ELSE IF found = {} THEN [user |-> NoRow, err |-> ErrNoRows]
       ELSE [user |-> CHOOSE u \in found : \A v \in found : u.id <= v.id,
             err |-> ErrNil]

\* SELECT ... FROM users WHERE email = $1 AND deleted_at IS NULL, scanned
\* with QueryRow(...).Scan, which reports an empty result as pgx.ErrNoRows.
GetUserByEmail(tbl, email, fault) ==
    LET live == {u \in tbl : u.email = email /\ ~u.deleted}
    IN IF fault # ErrNil THEN [user |-> NoRow, err |-> fault]
       ELSE IF live = {} THEN [user |-> NoRow, err |-> ErrNoRows]
       ELSE [user |-> CHOOSE u \in live : \A v \in live : u.id <= v.id,
             err |-> ErrNil]

\* Variant: an existence check that reads any failed query as "exists"
UserExistsByEmail_ErrorMeansExists(tbl, email, fault) ==
    IF fault # ErrNil THEN [exists |-> TRUE, err |-> ErrNil]
    ELSE [exists |-> \E u \in tbl : u.email = email /\ ~u.deleted,
          err |-> ErrNil]

\* SELECT EXISTS(SELECT 1 FROM users WHERE email = $1 AND deleted_at IS NULL)
UserExistsByEmail(tbl, email, fault) ==
    IF fault # ErrNil THEN [exists |-> FALSE, err |-> fault]
    ELSE [exists |-> \E u \in tbl : u.email = email /\ ~u.deleted,
          err |-> ErrNil]

----------------------------------------------------------------------------
(* Credential helpers *)

\* The bytes of a password that bcrypt feeds to its key schedule: the first
\* 72.
BcryptKey(password) == Pw(password.text, Min(password.len, BcryptMaxBytes))

\* bcrypt.GenerateFromPassword(password, 12)
hashPassword(password, salt) ==
    IF password.len > BcryptMaxBytes
    THEN [hash |-> NoHash, err |-> ErrPasswordTooLong]
    ELSE [hash |-> [salt |-> salt, key |-> BcryptKey(password)], err |-> ErrNil]

\* bcrypt.CompareHashAndPassword(hashedPassword, password): rehash the
\* candidate with the stored salt and compare.
verifyPassword(hashedPassword, password) ==
    IF [salt |-> hashedPassword.salt, key |-> BcryptKey(password)] = hashedPassword
    THEN ErrNil
    ELSE ErrMismatchedHashAndPassword

\* jwt.NewNumericDate: a time truncated to whole seconds
NewNumericDate(t) == t \div TicksPerSecond

\* Variant: token generation that leaves the Subject claim out
generateJWTToken_NoSubject(userID, t0, t1, t2, signErr) ==
    LET expirationTime == t0 + svc.jwtExpiry * TicksPerSecond
    IN IF signErr # ErrNil
       THEN [token |-> EmptyToken, err |-> ErrTokenGeneration]
       ELSE
       [token |-> [signed |-> TRUE,
                   userId |-> userID,
                   sub |-> <<>>,
                   iss |-> Issuer,
                   iat |-> NewNumericDate(t1),
                   nbf |-> NewNumericDate(t2),
                   exp |-> NewNumericDate(expirationTime)],
        err |-> ErrNil]

\* Variant: token generation that does not look at SignedString's error
generateJWTToken_IgnoresSignError(userID, t0, t1, t2, signErr) ==
    LET expirationTime == t0 + svc.jwtExpiry * TicksPerSecond
    IN [token |-> [signed |-> signErr = ErrNil,
                   userId |-> userID,
                   sub |-> UUIDString(userID),
                   iss |-> Issuer,
                   iat |-> NewNumericDate(t1),
                   nbf |-> NewNumericDate(t2),
                   exp |-> NewNumericDate(expirationTime)],
        err |-> ErrNil]

\* generateJWTToken; t0, t1, t2 are the three successive time.Now() readings
\* and signErr is what token.SignedString returns
generateJWTToken(userID, t0, t1, t2, signErr) ==
    LET expirationTime == t0 + svc.jwtExpiry * TicksPerSecond
    IN IF signErr # ErrNil
       THEN [token |-> EmptyToken, err |-> ErrTokenGeneration]
       ELSE
       [token |-> [signed |-> TRUE,
                   userId |-> userID,
                   sub |-> UUIDString(userID),
                   iss |-> Issuer,
                   iat |-> NewNumericDate(t1),
                   nbf |-> NewNumericDate(t2),
                   exp |-> NewNumericDate(expirationTime)],
        err |-> ErrNil]

----------------------------------------------------------------------------
(* The authentication service *)

NoParams == [firstName |-> "", lastName |-> "", dateOfBirth |-> "nil",
             email |-> "", password |-> EmptyPw, phoneNumber |-> NoPhone]

\* Variant: a signup that does not act on a positive existence check
SignUpPreCheck_IgnoreExists(tbl, params, fault, salt) ==
    LET ex == UserExistsByEmail(tbl, params.email, fault)
        h == hashPassword(params.password, salt)
    IN IF ex.err # ErrNil
       THEN [ret |-> TRUE, err |-> ex.err, hashedPassword |-> NoHash,
             steps |-> <<"UserExistsByEmail">>]
       ELSE IF h.err # ErrNil
       THEN [ret |-> TRUE, err |-> h.err, hashedPassword |-> NoHash,
             steps |-> <<"UserExistsByEmail", "hashPassword">>]
       ELSE [ret |-> FALSE, err |-> ErrNil, hashedPassword |-> h.hash,
             steps |-> <<"UserExistsByEmail", "hashPassword">>]

\* Variant: a signup that drops the error of the existence check and goes on
SignUpPreCheck_DropsCheckError(tbl, params, fault, salt) ==
    LET ex == UserExistsByEmail(tbl, params.email, fault)
        h == hashPassword(params.password, salt)
    IN IF ex.exists
       THEN [ret |-> TRUE, err |-> ErrUserAlreadyExists, hashedPassword |-> NoHash,
             steps |-> <<"UserExistsByEmail">>]
       ELSE IF h.err # ErrNil
       THEN [ret |-> TRUE, err |-> h.err, hashedPassword |-> NoHash,
             steps |-> <<"UserExistsByEmail", "hashPassword">>]
       ELSE [ret |-> FALSE, err |-> ErrNil, hashedPassword |-> h.hash,
             steps |-> <<"UserExistsByEmail", "hashPassword">>]

\* service.SignUp up to the point where it is about to call CreateUser:
\* the existence check and the hashing.  ret says whether SignUp returned.
SignUpPreCheck(tbl, params, fault, salt) ==
    LET ex == UserExistsByEmail(tbl, params.email, fault)
        h == hashPassword(params.password, salt)
    IN IF ex.err # ErrNil
       THEN [ret |-> TRUE, err |-> ex.err, hashedPassword |-> NoHash,
             steps |-> <<"UserExistsByEmail">>]
       ELSE IF ex.exists
       THEN [ret |-> TRUE, err |-> ErrUserAlreadyExists, hashedPassword |-> NoHash,
             steps |-> <<"UserExistsByEmail">>]
       ELSE IF h.err # ErrNil
       THEN [ret |-> TRUE, err |-> h.err, hashedPassword |-> NoHash,
             steps |-> <<"UserExistsByEmail", "hashPassword">>]
       ELSE [ret |-> FALSE, err |-> ErrNil, hashedPassword |-> h.hash,
             steps |-> <<"UserExistsByEmail", "hashPassword">>]

\* Variant: a signup that reports every failure of CreateUser as
\* UserAlreadyExists
SignUpPersist_EveryErrorIsAlreadyExists(tbl, params, hashedPassword, fault) ==
    LET createParams == [firstName |-> params.firstName,
                         lastName |-> params.lastName,
                         email |-> params.email,
                         passwordHash |-> hashedPassword,
                         phoneNumber |-> params.phoneNumber,
                         dateOfBirth |-> params.dateOfBirth]
        c == CreateUser(tbl, createParams, fault)
    IN [user |-> IF c.err # ErrNil THEN NoRow ELSE c.user,
        err |-> IF c.err # ErrNil THEN ErrUserAlreadyExists ELSE ErrNil,
        tbl |-> c.tbl,
        steps |-> <<"UserExistsByEmail", "hashPassword", "CreateUser">>]

\* Variant: a signup that passes the password itself to CreateUser
SignUpPersist_StoresPlaintext(tbl, params, hashedPassword, fault) ==
    LET createParams == [firstName |-> params.firstName,
                         lastName |-> params.lastName,
                         email |-> params.email,
                         passwordHash |-> params.password,
                         phoneNumber |-> params.phoneNumber,
                         dateOfBirth |-> params.dateOfBirth]
        c == CreateUser(tbl, createParams, fault)
    IN [user |-> IF c.err # ErrNil THEN NoRow ELSE c.user,
        err |-> c.err, tbl |-> c.tbl,
        steps |-> <<"UserExistsByEmail", "hashPassword", "CreateUser">>]

\* Variant: a signup that leaves the date of birth out of the create call
SignUpPersist_DropsDateOfBirth(tbl, params, hashedPassword, fault) ==
    LET createParams == [firstName |-> params.firstName,
                         lastName |-> params.lastName,
                         email |-> params.email,
                         passwordHash |-> hashedPassword,
                         phoneNumber |-> params.phoneNumber,
                         dateOfBirth |-> "nil"]
        c == CreateUser(tbl, createParams, fault)
    IN [user |-> IF c.err # ErrNil THEN NoRow ELSE c.user,
        err |-> c.err, tbl |-> c.tbl,
        steps |-> <<"UserExistsByEmail", "hashPassword", "CreateUser">>]

\* Variant: a signup that calls CreateUser a second time when the first fails
SignUpPersist_RetriesCreate(tbl, params, hashedPassword, fault) ==
    LET createParams == [firstName |-> params.firstName,
                         lastName |-> params.lastName,
                         email |-> params.email,
                         passwordHash |-> hashedPassword,
                         phoneNumber |-> params.phoneNumber,
                         dateOfBirth |-> params.dateOfBirth]
        c == CreateUser(tbl, createParams, fault)
        d == CreateUser(tbl, createParams, ErrNil)
    IN IF c.err = ErrNil
       THEN [user |-> c.user, err |-> ErrNil, tbl |-> c.tbl,
             steps |-> <<"UserExistsByEmail", "hashPassword", "CreateUser">>]
       ELSE [user |-> IF d.err # ErrNil THEN NoRow ELSE d.user,
             err |-> d.err, tbl |-> d.tbl,
             steps |-> <<"UserExistsByEmail", "hashPassword", "CreateUser",
                         "CreateUser">>]

\* service.SignUp from the CreateUser call to its return
SignUpPersist(tbl, params, hashedPassword, fault) ==
    LET createParams == [firstName |-> params.firstName,
                         lastName |-> params.lastName,
                         email |-> params.email,
                         passwordHash |-> hashedPassword,
                         phoneNumber |-> params.phoneNumber,
                         dateOfBirth |-> params.dateOfBirth]
        c == CreateUser(tbl, createParams, fault)
    IN [user |-> IF c.err # ErrNil THEN NoRow ELSE c.user,
        err |-> c.err, tbl |-> c.tbl,
        steps |-> <<"UserExistsByEmail", "hashPassword", "CreateUser">>]

\* Variant: a login that signs the token before it verifies the password and
\* returns it together with the verification error
Login_TokenBeforeVerify(tbl, email, password, fault, t0, t1, t2, signErr) ==
    LET g == GetUserByEmail(tbl, email, fault)
        t == generateJWTToken(g.user.id, t0, t1, t2, signErr)
    IN IF g.err # ErrNil
       THEN [token |-> EmptyToken, err |-> g.err, user |-> NoRow,
             steps |-> <<"GetUserByEmail">>]
       ELSE IF g.user = NoRow
       THEN [token |-> EmptyToken, err |-> ErrUserNotFound, user |-> NoRow,
             steps |-> <<"GetUserByEmail">>]
       ELSE IF verifyPassword(g.user.passwordHash, password) # ErrNil
       THEN [token |-> t.token, err |-> ErrInvalidPassword, user |-> g.user,
             steps |-> <<"GetUserByEmail", "verifyPassword">>]
       ELSE [token |-> t.token, err |-> ErrNil, user |-> g.user,
             steps |-> <<"GetUserByEmail", "verifyPassword", "generateJWTToken">>]

\* service.Login; t0, t1, t2 are the clock readings of token generation and
\* signErr the outcome of the signing
Login(tbl, email, password, fault, t0, t1, t2, signErr) ==
    LET g == GetUserByEmail(tbl, email, fault)
        t == generateJWTToken(g.user.id, t0, t1, t2, signErr)
    IN IF g.err # ErrNil
       THEN [token |-> EmptyToken, err |-> g.err, user |-> NoRow,
             steps |-> <<"GetUserByEmail">>]
       ELSE IF g.user = NoRow
       THEN [token |-> EmptyToken, err |-> ErrUserNotFound, user |-> NoRow,
             steps |-> <<"GetUserByEmail">>]
       ELSE IF verifyPassword(g.user.passwordHash, password) # ErrNil
       THEN [token |-> EmptyToken, err |-> ErrInvalidPassword, user |-> g.user,
             steps |-> <<"GetUserByEmail", "verifyPassword">>]
       ELSE IF t.err # ErrNil
       THEN [token |-> EmptyToken, err |-> t.err, user |-> g.user,
             steps |-> <<"GetUserByEmail", "verifyPassword", "generateJWTToken">>]
       ELSE [token |-> t.token, err |-> ErrNil, user |-> g.user,
             steps |-> <<"GetUserByEmail", "verifyPassword", "generateJWTToken">>]

----------------------------------------------------------------------------
(* The HTTP handlers *)

\* validate:"required,email"
IsEmail(e) == e \in Emails

\* validate:"omitempty,e164"
IsE164(ph) == ph \in Phones

\* Variant: validation without the length bounds of the password
ValidSignUpRequest_NoPasswordBounds(body) ==
    /\ Len(body.firstName) >= 2 /\ Len(body.firstName) <= 100
    /\ Len(body.lastName) >= 2 /\ Len(body.lastName) <= 100
    /\ IsEmail(body.email)
    /\ body.phoneNumber # NoPhone => IsE164(body.phoneNumber)

\* dto.SignUpRequest's validation tags
ValidSignUpRequest(body) ==
    /\ Len(body.firstName) >= 2 /\ Len(body.firstName) <= 100
    /\ Len(body.lastName) >= 2 /\ Len(body.lastName) <= 100
    /\ IsEmail(body.email)
    /\ body.password.len >= 8 /\ body.password.len <= 72
    /\ body.phoneNumber # NoPhone => IsE164(body.phoneNumber)

\* dto.LoginRequest's validation tags
ValidLoginRequest(body) ==
    /\ IsEmail(body.email)
    /\ body.password.len > 0

\* The response AuthHandler.SignUp writes for what the service returned
SignUpResponse(err) ==
    IF err = ErrNil THEN [code |-> 201, message |-> ""]
    ELSE IF err = ErrUserAlreadyExists
    THEN [code |-> 409, message |-> "User with this email already exists"]
    ELSE [code |-> 500, message |-> "Failed to create user"]

\* Variant: a login handler that puts the error's text into the 500 response
LoginResponse_LeaksError(err, t3) ==
    IF err = ErrNil
    THEN [code |-> 200, message |-> "",
          expiresAt |-> t3 + jwtExpiry * TicksPerSecond]
    ELSE IF err = ErrUserNotFound \/ err = ErrInvalidPassword
    THEN [code |-> 401, message |-> "Invalid email or password", expiresAt |-> 0]
    ELSE [code |-> 500, message |-> err, expiresAt |-> 0]

\* The response AuthHandler.Login writes for what the service returned; t3 is
\* the handler's own time.Now() reading
LoginResponse(err, t3) ==
    IF err = ErrNil
    THEN [code |-> 200, message |-> "",
          expiresAt |-> t3 + jwtExpiry * TicksPerSecond]
    ELSE IF err = ErrUserNotFound \/ err = ErrInvalidPassword
    THEN [code |-> 401, message |-> "Invalid email or password", expiresAt |-> 0]
    ELSE [code |-> 500, message |-> "Failed to authenticate user", expiresAt |-> 0]

\* dto.SignUpResponse as AuthHandler.SignUp fills it from the created user
SignUpBody(user) ==
    [id |-> UUIDString(user.id), firstName |-> user.firstName,
     lastName |-> user.lastName, email |-> user.email]

NoBody == [id |-> <<>>, firstName |-> "", lastName |-> "", email |-> ""]

\* Request bodies the clients send
SignUpBodies ==
    [malformed : {FALSE}, firstName : {"John"}, lastName : {"Doe"},
     dateOfBirth : {"nil"}, email : {"a@x.com"}, password : {P72},
     phoneNumber : {NoPhone}]
    \cup
    [malformed : {FALSE}, firstName : {"Jane"}, lastName : {"Smith"},
     dateOfBirth : {"1990-05-15"}, email : {"a@x.com"}, password : {P72},
     phoneNumber : Phones]
    \cup
    [malformed : {FALSE}, firstName : {"John"}, lastName : {"Doe"},
     dateOfBirth : {"nil"}, email : {"b@x.com"}, password : {Q8},
     phoneNumber : {NoPhone}]
    \cup
    [malformed : {FALSE}, firstName : {"Jane"}, lastName : {"Smith"},
     dateOfBirth : {"1990-05-15"}, email : {"b@x.com"}, password : {Q8},
     phoneNumber : Phones]
    \cup
    [malformed : {TRUE}, firstName : {""}, lastName : {""},
     dateOfBirth : {"nil"}, email : {""}, password : {EmptyPw},
     phoneNumber : {NoPhone}]
    \cup
    {[malformed |-> FALSE, firstName |-> "J", lastName |-> "Doe",
      dateOfBirth |-> "nil", email |-> "a@x.com", password |-> Q8,
      phoneNumber |-> NoPhone],
     [malformed |-> FALSE, firstName |-> "John", lastName |-> "Doe",
      dateOfBirth |-> "nil", email |-> BadEmail, password |-> Q8,
      phoneNumber |-> NoPhone],
     [malformed |-> FALSE, firstName |-> "John", lastName |-> "Doe",
      dateOfBirth |-> "nil", email |-> "a@x.com", password |-> Q7,
      phoneNumber |-> NoPhone],
     [malformed |-> FALSE, firstName |-> "John", lastName |-> "Doe",
      dateOfBirth |-> "nil", email |-> "a@x.com", password |-> P73,
      phoneNumber |-> NoPhone],
     [malformed |-> FALSE, firstName |-> "John", lastName |-> "Doe",
      dateOfBirth |-> "nil", email |-> "a@x.com", password |-> Q8,
      phoneNumber |-> BadPhone]}

LoginBodies ==
    [malformed : {FALSE}, email : {"a@x.com"}, password : {P72, P73, Q8}]
    \cup
    [malformed : {FALSE}, email : {"b@x.com"}, password : {Q8}]
    \cup
    {[malformed |-> TRUE, email |-> "", password |-> EmptyPw],
     [malformed |-> FALSE, email |-> BadEmail, password |-> Q8],
     [malformed |-> FALSE, email |-> "a@x.com", password |-> EmptyPw]}

ParamsOf(body) ==
    [firstName |-> body.firstName, lastName |-> body.lastName,
     dateOfBirth |-> body.dateOfBirth, email |-> body.email,
     password |-> body.password, phoneNumber |-> body.phoneNumber]

IdleCall == [pc |-> "idle", params |-> NoParams, hashedPassword |-> NoHash]

NoResp == [op |-> "none", email |-> "", password |-> EmptyPw,
           phoneNumber |-> NoPhone, code |-> 0, message |-> "",
           err |-> ErrNil, user |-> NoRow, token |-> EmptyToken,
           expiresAt |-> 0, steps |-> <<>>, body |-> NoBody]

\* What a finished signup leaves as the last response
SignUpDone(params, code, message, err, user, steps) ==
    [op |-> "SignUp", email |-> params.email, password |-> params.password,
     phoneNumber |-> params.phoneNumber, code |-> code, message |-> message,
     err |-> err, user |-> user, token |-> EmptyToken, expiresAt |-> 0,
     steps |-> steps, body |-> IF code = 201 THEN SignUpBody(user) ELSE NoBody]

\* What a finished login leaves as the last response
LoginDone(body, code, message, err, user, token, expiresAt, steps) ==
    [op |-> "Login", email |-> body.email, password |-> body.password,
     phoneNumber |-> NoPhone, code |-> code, message |-> message,
     err |-> err, user |-> user, token |-> token, expiresAt |-> expiresAt,
     steps |-> steps, body |-> NoBody]

----------------------------------------------------------------------------
(* The trace middleware *)

\* r.Header.Get of an absent or empty header
EmptyHeader == <<>>

\* Values a client can send in X-Trace-ID or X-Request-ID
HeaderValues == {EmptyHeader} \cup {<<"hdr", i>> : i \in 1..MaxIds}

\* Values uuid.New().String() can return
FreshIDs == {UUIDString(i) : i \in 1..MaxIds}

\* Variant: a middleware that gives a request without X-Request-ID the
\* generated ID although the client sent a trace ID
TraceIDs_RequestIDFromFresh(xTraceID, xRequestID, fresh) ==
    LET traceID == IF xTraceID = EmptyHeader THEN fresh ELSE xTraceID
        requestID == IF xRequestID = EmptyHeader THEN fresh ELSE xRequestID
    IN [responseHeader |-> traceID, ctxTraceID |-> traceID,
        ctxRequestID |-> requestID]

\* What TraceIDMiddleware computes from the two request headers; fresh is
\* the value uuid.New().String() returns when it is called
TraceIDs(xTraceID, xRequestID, fresh) ==
    LET traceID == IF xTraceID = EmptyHeader THEN fresh ELSE xTraceID
        requestID == IF xRequestID = EmptyHeader THEN traceID ELSE xRequestID
    IN [responseHeader |-> traceID, ctxTraceID |-> traceID,
        ctxRequestID |-> requestID]

NoTrace == [seen |-> FALSE, xTraceID |-> EmptyHeader,
            xRequestID |-> EmptyHeader, generated |-> EmptyHeader,
            responseHeader |-> EmptyHeader, ctxTraceID |-> EmptyHeader,
            ctxRequestID |-> EmptyHeader]

Init ==
    /\ users = {}
    /\ calls = [p \in Procs |-> IdleCall]
    /\ resp = NoResp
    /\ registered = {}
    /\ svc = NewService
    /\ trace = NoTrace

\* AuthHandler.SignUp from the arrival of the request to the return of the
\* service's existence check and hashing
AuthHandlerSignUp(p, body, fault) ==
    /\ calls[p].pc = "idle"
    /\ UNCHANGED <<users, registered, svc, trace>>
    /\ IF body.malformed
       THEN /\ fault = ErrNil
            /\ resp' = SignUpDone(ParamsOf(body), 400, "Invalid request body",
                                  ErrNil, NoRow, <<>>)
            /\ UNCHANGED calls
       ELSE IF ~ValidSignUpRequest(body)
       THEN /\ fault = ErrNil
            /\ resp' = SignUpDone(ParamsOf(body), 400, "Validation failed",
                                  ErrNil, NoRow, <<>>)
            /\ UNCHANGED calls
       ELSE \E salt \in Salts :
              LET r == SignUpPreCheck(users, ParamsOf(body), fault, salt)
              IN IF r.ret
                 THEN /\ resp' = SignUpDone(ParamsOf(body),
                                            SignUpResponse(r.err).code,
                                            SignUpResponse(r.err).message,
                                            r.err, NoRow, r.steps)
                      /\ UNCHANGED calls
                 ELSE /\ calls' = [calls EXCEPT ![p] =
                                     [pc |-> "CreateUser",
                                      params |-> ParamsOf(body),
                                      hashedPassword |-> r.hashedPassword]]
                      /\ UNCHANGED resp

\* The rest of AuthHandler.SignUp: the service's CreateUser call, its return
\* and the response
AuthHandlerSignUpCreate(p, fault) ==
    /\ calls[p].pc = "CreateUser"
    /\ Cardinality(users) < MaxUsers
    /\ LET r == SignUpPersist(users, calls[p].params, calls[p].hashedPassword, fault)
       IN /\ users' = r.tbl
          /\ resp' = SignUpDone(calls[p].params, SignUpResponse(r.err).code,
                                SignUpResponse(r.err).message, r.err, r.user,
                                r.steps)
          /\ registered' =
                IF r.err = ErrNil
                THEN registered \cup {[id |-> r.user.id, email |-> r.user.email,
                                       password |-> calls[p].params.password]}
                ELSE registered
    /\ calls' = [calls EXCEPT ![p] = IdleCall]
    /\ UNCHANGED <<svc, trace>>

\* Variant: a login handler that locks the account after a wrong password
AuthHandlerLogin_LocksAccount(body, fault, signErr) ==
    /\ users' = {[u EXCEPT !.deleted =
                      \/ u.deleted
                      \/ /\ u.email = body.email
                         /\ verifyPassword(u.passwordHash, body.password) # ErrNil] :
                  u \in users}
    /\ UNCHANGED <<calls, registered, svc, trace>>
    /\ IF body.malformed
       THEN /\ fault = ErrNil
            /\ signErr = ErrNil
            /\ resp' = LoginDone(body, 400, "Invalid request body", ErrNil,
                                 NoRow, EmptyToken, 0, <<>>)
       ELSE IF ~ValidLoginRequest(body)
       THEN /\ fault = ErrNil
            /\ signErr = ErrNil
            /\ resp' = LoginDone(body, 400, "Validation failed", ErrNil,
                                 NoRow, EmptyToken, 0, <<>>)
       ELSE LET f == Login(users, body.email, body.password, fault, 0, 0, 0,
                           signErr)
                hf == LoginResponse(f.err, 0)
            IN IF f.err # ErrNil
               THEN /\ signErr # ErrNil => f.steps[Len(f.steps)] = "generateJWTToken"
                    /\ resp' = LoginDone(body, hf.code, hf.message, f.err,
                                         f.user, f.token, hf.expiresAt, f.steps)
               ELSE \E t0 \in 0..MaxClock : \E t1 \in t0..MaxClock :
                    \E t2 \in t1..MaxClock : \E t3 \in t2..MaxClock :
                      LET r == Login(users, body.email, body.password, fault,
                                     t0, t1, t2, signErr)
                          h == LoginResponse(r.err, t3)
                      IN resp' = LoginDone(body, h.code, h.message, r.err,
                                           r.user, r.token, h.expiresAt, r.steps)

\* AuthHandler.Login.  t0, t1, t2 are the three clock readings of token
\* generation and t3 the handler's own; the clock does not run backwards, and
\* it is read only once the lookup and the verification have succeeded.
AuthHandlerLogin(body, fault, signErr) ==
    /\ UNCHANGED <<users, calls, registered, svc, trace>>
    /\ IF body.malformed
       THEN /\ fault = ErrNil
            /\ signErr = ErrNil
            /\ resp' = LoginDone(body, 400, "Invalid request body", ErrNil,
                                 NoRow, EmptyToken, 0, <<>>)
       ELSE IF ~ValidLoginRequest(body)
       THEN /\ fault = ErrNil
            /\ signErr = ErrNil
            /\ resp' = LoginDone(body, 400, "Validation failed", ErrNil,
                                 NoRow, EmptyToken, 0, <<>>)
       ELSE LET f == Login(users, body.email, body.password, fault, 0, 0, 0,
                           signErr)
                hf == LoginResponse(f.err, 0)
            IN IF f.err # ErrNil
               THEN /\ signErr # ErrNil => f.steps[Len(f.steps)] = "generateJWTToken"
                    /\ resp' = LoginDone(body, hf.code, hf.message, f.err,
                                         f.user, f.token, hf.expiresAt, f.steps)
               ELSE \E t0 \in 0..MaxClock : \E t1 \in t0..MaxClock :
                    \E t2 \in t1..MaxClock : \E t3 \in t2..MaxClock :
                      LET r == Login(users, body.email, body.password, fault,
                                     t0, t1, t2, signErr)
                          h == LoginResponse(r.err, t3)
                      IN resp' = LoginDone(body, h.code, h.message, r.err,
                                           r.user, r.token, h.expiresAt, r.steps)

\* Something outside the authentication path sets deleted_at on a row
SoftDelete(id) ==
    /\ \E u \in users :
         /\ u.id = id
         /\ ~u.deleted
         /\ users' = (users \ {u}) \cup {[u EXCEPT !.deleted = TRUE]}
    /\ UNCHANGED <<calls, resp, registered, svc, trace>>

Next ==
    \/ \E p \in Procs, body \in SignUpBodies, fault \in StoreFaults :
         AuthHandlerSignUp(p, body, fault)
    \/ \E p \in Procs, fault \in StoreFaults : AuthHandlerSignUpCreate(p, fault)
    \/ \E body \in LoginBodies, fault \in StoreFaults :
         AuthHandlerLogin(body, fault, ErrNil)
    \/ \E id \in 1..MaxUsers : SoftDelete(id)

\* TraceIDMiddleware serving one request
TraceIDMiddleware(xTraceID, xRequestID, fresh) ==
    /\ LET ids == TraceIDs(xTraceID, xRequestID, fresh)
       IN trace' = [seen |-> TRUE, xTraceID |-> xTraceID,
                    xRequestID |-> xRequestID,
                    generated |-> IF xTraceID = EmptyHeader THEN fresh
                                  ELSE EmptyHeader,
                    responseHeader |-> ids.responseHeader,
                    ctxTraceID |-> ids.ctxTraceID,
                    ctxRequestID |-> ids.ctxRequestID]
    /\ UNCHANGED <<users, calls, resp, registered, svc>>

Spec == Init /\ [][Next]_vars

\* The same program with a signing method that can return an error
NextSignFault ==
    \/ Next
    \/ \E body \in LoginBodies : AuthHandlerLogin(body, ErrNil, ErrSigning)

SpecSignFault == Init /\ [][NextSignFault]_vars

\* The middleware alone, for every combination of the two headers
NextTrace ==
    \E xTraceID \in HeaderValues, xRequestID \in HeaderValues,
       fresh \in FreshIDs :
         TraceIDMiddleware(xTraceID, xRequestID, fresh)

SpecTrace == Init /\ [][NextTrace]_vars

----------------------------------------------------------------------------
(* Helpers of the properties *)

FaultErrors == {ErrStorage, ErrDeadline}

\* The rows of the table that hold the email, and those of them not deleted
RowsWith(email) == {u \in users : u.email = email}
LiveRowsWith(email) == {u \in users : u.email = email /\ ~u.deleted}

\* A login body that reaches the service
ReachesLogin(body) == ~body.malformed /\ ValidLoginRequest(body)

\* A signup body that reaches the service
ReachesSignUp(body) == ~body.malformed /\ ValidSignUpRequest(body)

\* The step is AuthHandlerLogin for this body and fault (the first three
\* conjuncts follow from the fourth)
LoginStep(body, fault) ==
    /\ resp'.op = "Login"
    /\ resp'.email = body.email
    /\ resp'.password = body.password
    /\ AuthHandlerLogin(body, fault, ErrNil)

\* The step is AuthHandlerSignUp for this slot, body and fault (the first
\* two conjuncts follow from the third for a body that reaches the service)
SignUpStep(p, body, fault) ==
    /\ calls[p].pc = "idle"
    /\ \/ resp'.op = "SignUp" /\ resp'.email = body.email
       \/ calls'[p].params = ParamsOf(body)
    /\ AuthHandlerSignUp(p, body, fault)

----------------------------------------------------------------------------
(* Claims *)

\* C1: under any interleaving of signups for one email, including those in
\* which several calls pass the existence check before any of them inserts,
\* at most one call succeeds and at most one row holds the email.
C1_AtMostOneSignUpPerEmail ==
    \A e \in Emails :
        /\ Cardinality({r \in registered : r.email = e}) <= 1
        /\ Cardinality(RowsWith(e)) <= 1

\* C1 witness: a signup whose existence check had passed lost the race: its
\* insert was rejected while a live row with its email is in the table.
C1_Witness ==
    /\ resp.op = "SignUp"
    /\ resp.err = ErrUniqueViolation
    /\ resp.phoneNumber = NoPhone
    /\ LiveRowsWith(resp.email) # {}
    /\ \E r \in registered : r.email = resp.email

\* C2: once a signup for an email has succeeded, every other signup for that
\* email that fails (other than by a storage fault) fails with
\* UserAlreadyExists, also when its existence check had passed before the
\* winning insert: the constraint violation is translated.
C2_LoserGetsUserAlreadyExists ==
    ( /\ resp.op = "SignUp"
      /\ resp.steps # <<>>
      /\ resp.err # ErrNil
      /\ resp.err \notin FaultErrors
      /\ resp.phoneNumber = NoPhone
      /\ LiveRowsWith(resp.email) # {}
      /\ \E r \in registered : r.email = resp.email )
    => resp.err = ErrUserAlreadyExists

\* C3: a row with its deletion timestamp set is nonexistent for
\* UserExistsByEmail and GetUserByEmail, and a signup with its email that
\* reaches the insert (no storage fault, no phone number) succeeds and adds a
\* row.
C3_SoftDeletedEmailReRegisters ==
    [][ /\ \A e \in Emails : LiveRowsWith(e) = {} =>
              /\ ~UserExistsByEmail(users, e, ErrNil).exists
              /\ GetUserByEmail(users, e, ErrNil).user = NoRow
        /\ \A p \in Procs :
              ( /\ calls[p].params.phoneNumber = NoPhone
                /\ RowsWith(calls[p].params.email) # {}
                /\ LiveRowsWith(calls[p].params.email) = {}
                /\ AuthHandlerSignUpCreate(p, ErrNil) )
              => /\ resp'.err = ErrNil
                 /\ \E u \in users' \ users : u.email = calls[p].params.email
      ]_vars

\* C4: a login with an email that no live row holds fails with UserNotFound
\* and returns no token.
C4_UnknownEmailIsUserNotFound ==
    [][ \A body \in LoginBodies :
          ( /\ ReachesLogin(body)
            /\ LoginStep(body, ErrNil)
            /\ LiveRowsWith(body.email) = {} )
          => /\ resp'.err = ErrUserNotFound
             /\ resp'.token = EmptyToken
      ]_vars

\* C5: a login with an unregistered email and a login with a registered
\* email and a wrong password get the same response: 401 with the generic
\* message.
C5_SameResponseForBothCredentialFailures ==
    [][ \A body \in LoginBodies :
          ( /\ ReachesLogin(body)
            /\ LoginStep(body, ErrNil)
            /\ \/ LiveRowsWith(body.email) = {}
               \/ \E u \in LiveRowsWith(body.email) :
                     verifyPassword(u.passwordHash, body.password) # ErrNil )
          => /\ resp'.code = 401
             /\ resp'.message = "Invalid email or password"
      ]_vars

\* C6: a login returns a token only if, when it looks the user up, a live row
\* holds the email and the password verifies against that row's hash; in
\* every other case the token is empty.
C6_TokenOnlyForVerifiedLiveUser ==
    [][ \A body \in LoginBodies, fault \in StoreFaults :
          ( /\ resp'.token # EmptyToken
            /\ LoginStep(body, fault) )
          => /\ fault = ErrNil
             /\ resp'.err = ErrNil
             /\ \E u \in users :
                   /\ u.email = body.email
                   /\ ~u.deleted
                   /\ verifyPassword(u.passwordHash, body.password) = ErrNil
                   /\ resp'.token.userId = u.id
      ]_vars

\* C6 witness: a login returned a token for the live row that holds its
\* email, while the table also holds a soft-deleted row
C6_Witness ==
    /\ resp.op = "Login"
    /\ resp.token.signed
    /\ resp.err = ErrNil
    /\ \E u \in LiveRowsWith(resp.email) : resp.token.userId = u.id
    /\ \E u \in users : u.deleted

\* C7: a login with the email of a registered, live user and a password
\* different from the one given at signup fails with InvalidPassword and
\* returns an empty token.
C7_WrongPasswordIsInvalidPassword ==
    [][ \A body \in LoginBodies :
          ( /\ ReachesLogin(body)
            /\ LoginStep(body, ErrNil)
            /\ \E r \in registered :
                  /\ r.email = body.email
                  /\ r.password # body.password
                  /\ \E u \in users : u.id = r.id /\ ~u.deleted )
          => /\ resp'.err = ErrInvalidPassword
             /\ resp'.token = EmptyToken
      ]_vars

\* C8: after a signup with email E and password P has succeeded and while its
\* row is not deleted, a login with E and P (no storage fault) succeeds with a
\* signed token whose subject is the textual identifier of the row that
\* signup created and whose issuer is the service name.
C8_SignUpThenLoginRoundTrip ==
    [][ \A body \in LoginBodies :
          ( /\ ReachesLogin(body)
            /\ LoginStep(body, ErrNil) )
          => \A r \in registered :
               ( /\ r.email = body.email
                 /\ r.password = body.password
                 /\ \E u \in users : u.id = r.id /\ ~u.deleted )
               => /\ resp'.err = ErrNil
                  /\ resp'.token.signed
                  /\ resp'.token.sub = UUIDString(r.id)
                  /\ resp'.token.iss = Issuer
      ]_vars

\* C8 witness: a login with the credentials of a successful signup returned a
\* token for that signup's row
C8_Witness ==
    /\ resp.op = "Login"
    /\ resp.err = ErrNil
    /\ \E r \in registered :
          /\ r.email = resp.email
          /\ r.password = resp.password
          /\ resp.token.userId = r.id
          /\ resp.token.sub = UUIDString(r.id)

\* C9: every issued token has not-before equal to issued-at and expiry
\* exactly 24 hours after issued-at, whatever the clock does between the
\* steps of token generation.
C9_TokenWindowIsExactly24h ==
    (resp.op = "Login" /\ resp.token.signed)
    => /\ resp.token.exp - resp.token.iat = jwtExpiry
       /\ resp.token.nbf = resp.token.iat

\* C10: when the existence check reports a live user with the email, the
\* signup fails with UserAlreadyExists, returns no user, and neither hashes
\* the password nor calls CreateUser.
C10_ExistingEmailStopsSignUp ==
    [][ \A p \in Procs, body \in SignUpBodies :
          ( /\ ReachesSignUp(body)
            /\ UserExistsByEmail(users, body.email, ErrNil).exists
            /\ SignUpStep(p, body, ErrNil) )
          => /\ resp'.op = "SignUp"
             /\ resp'.email = body.email
             /\ resp'.err = ErrUserAlreadyExists
             /\ resp'.user = NoRow
             /\ resp'.steps = <<"UserExistsByEmail">>
             /\ calls'[p].pc = "idle"
             /\ users' = users
      ]_vars

\* C10 witness: a signup stopped at the existence check
C10_Witness ==
    /\ resp.op = "SignUp"
    /\ resp.err = ErrUserAlreadyExists
    /\ resp.steps = <<"UserExistsByEmail">>
    /\ resp.user = NoRow
    /\ LiveRowsWith(resp.email) # {}

\* C11: when the existence query itself fails, the signup returns that error
\* unchanged, returns no user and never calls CreateUser.
C11_ExistsCheckErrorPropagates ==
    [][ \A p \in Procs, body \in SignUpBodies, fault \in FaultErrors :
          ( /\ ReachesSignUp(body)
            /\ SignUpStep(p, body, fault) )
          => /\ resp'.op = "SignUp"
             /\ resp'.email = body.email
             /\ resp'.err = fault
             /\ resp'.user = NoRow
             /\ resp'.steps = <<"UserExistsByEmail">>
             /\ calls'[p].pc = "idle"
             /\ users' = users
      ]_vars

\* C11 witness: a signup ended at a failed existence query
C11_Witness ==
    /\ resp.op = "SignUp"
    /\ resp.err \in FaultErrors
    /\ resp.steps = <<"UserExistsByEmail">>
    /\ resp.user = NoRow

\* C12: when CreateUser fails with a storage error other than a uniqueness
\* violation, the signup returns that error unchanged and returns no user.
C12_CreateErrorPropagates ==
    [][ \A p \in Procs, fault \in FaultErrors :
          ( /\ calls[p].pc = "CreateUser"
            /\ AuthHandlerSignUpCreate(p, fault) )
          => /\ resp'.op = "SignUp"
             /\ resp'.email = calls[p].params.email
             /\ resp'.err = fault
             /\ resp'.user = NoRow
      ]_vars

\* C12 witness: a signup ended at a failed CreateUser
C12_Witness ==
    /\ resp.op = "SignUp"
    /\ resp.err \in FaultErrors
    /\ resp.steps = <<"UserExistsByEmail", "hashPassword", "CreateUser">>
    /\ resp.user = NoRow

\* The byte strings a client may try as a password
Passwords == {P72, P73, Q8, Q7}

\* C13: the hash a signup passes to CreateUser is non-empty, differs from the
\* password, verifies against the password, and fails to verify against
\* every other password.
C13_HashVerifiesOnlyItsPassword ==
    \A p \in Procs :
        calls[p].pc = "CreateUser" =>
            /\ calls[p].hashedPassword # NoHash
            /\ calls[p].hashedPassword # calls[p].params.password
            /\ verifyPassword(calls[p].hashedPassword, calls[p].params.password) = ErrNil
            /\ \A other \in Passwords \ {calls[p].params.password} :
                  verifyPassword(calls[p].hashedPassword, other) # ErrNil

\* C14: no stored row, no record returned by the service and no signup
\* response holds the plaintext password: the credential field of every row
\* and of every returned record is a hash, never a password, and the signup
\* response has no credential field at all.
C14_NoPlaintextPassword ==
    /\ \A u \in users : u.passwordHash \notin Passwords
    /\ \A r \in registered : \A u \in users :
          u.id = r.id => u.passwordHash # r.password
    /\ \A p \in Procs : calls[p].hashedPassword \notin Passwords
    /\ resp.user.passwordHash \notin Passwords
    /\ DOMAIN resp.body = {"id", "firstName", "lastName", "email"}

\* C14 witness: a signup succeeded; its row is stored and its response built
C14_Witness ==
    /\ resp.op = "SignUp"
    /\ resp.code = 201
    /\ resp.user \in users
    /\ resp.body = SignUpBody(resp.user)
    /\ \E r \in registered : r.id = resp.user.id /\ r.password = resp.password

LiveRowsWithPhone(phoneNumber) ==
    {u \in users : u.phoneNumber = phoneNumber /\ ~u.deleted}

\* C15: no two non-deleted users share a phone number: an insert whose phone
\* number is held by a non-deleted user fails and adds no row, and an insert
\* without a phone number that meets no fault and no row with its email
\* succeeds.
C15_PhoneUniqueAmongLiveUsers ==
    /\ [](\A u, v \in users :
             ( /\ ~u.deleted /\ ~v.deleted
               /\ u.phoneNumber # NoPhone
               /\ u.phoneNumber = v.phoneNumber ) => u = v)
    /\ [][ \A p \in Procs, fault \in StoreFaults :
             ( /\ calls[p].pc = "CreateUser"
               /\ AuthHandlerSignUpCreate(p, fault) )
             => /\ ( /\ calls[p].params.phoneNumber # NoPhone
                     /\ LiveRowsWithPhone(calls[p].params.phoneNumber) # {} )
                   => /\ resp'.err # ErrNil
                      /\ resp'.user = NoRow
                      /\ users' = users
                /\ ( /\ calls[p].params.phoneNumber = NoPhone
                     /\ fault = ErrNil
                     /\ RowsWith(calls[p].params.email) = {} )
                   => /\ resp'.err = ErrNil
                      /\ resp'.user \in users'
                      /\ resp'.user \notin users ]_vars

\* C15 witness: a signup for a fresh email was refused because a non-deleted
\* user of another email holds its phone number
C15_Witness ==
    /\ resp.op = "SignUp"
    /\ resp.phoneNumber # NoPhone
    /\ resp.err = ErrUniqueViolation
    /\ RowsWith(resp.email) = {}
    /\ \E u \in LiveRowsWithPhone(resp.phoneNumber) : u.email # resp.email

\* C16: no partial results: a SignUp that returned an error returned no user
\* record, a Login that returned an error returned the empty token, and a
\* user record or a non-empty token comes only with a nil error.
C16_NoPartialResults ==
    /\ (resp.op = "SignUp" /\ resp.err # ErrNil) => resp.user = NoRow
    /\ (resp.op = "SignUp" /\ resp.user # NoRow) => resp.err = ErrNil
    /\ (resp.op = "Login" /\ resp.err # ErrNil) => resp.token = EmptyToken
    /\ (resp.op = "Login" /\ resp.token # EmptyToken) => resp.err = ErrNil

\* C16 witness: a login found the user, failed at the password and returned
\* the empty token
C16_Witness ==
    /\ resp.op = "Login"
    /\ resp.err = ErrInvalidPassword
    /\ resp.steps = <<"GetUserByEmail", "verifyPassword">>
    /\ resp.token = EmptyToken
    /\ LiveRowsWith(resp.email) # {}

\* C17: a signup that succeeds adds exactly one row, made from the first name,
\* last name, email, date of birth and phone number as supplied and from the
\* hash in place of the password, and returns that row unchanged: its
\* identifier is set and its email is the supplied one.
C17_CreateGetsSuppliedFields ==
    [][ \A p \in Procs :
          ( /\ calls[p].pc = "CreateUser"
            /\ resp'.code = 201
            /\ AuthHandlerSignUpCreate(p, ErrNil) )
          => /\ \E u \in users' :
                  /\ users' = users \cup {u}
                  /\ u \notin users
                  /\ u.firstName = calls[p].params.firstName
                  /\ u.lastName = calls[p].params.lastName
                  /\ u.email = calls[p].params.email
                  /\ u.dateOfBirth = calls[p].params.dateOfBirth
                  /\ u.phoneNumber = calls[p].params.phoneNumber
                  /\ u.passwordHash = calls[p].hashedPassword
                  /\ u.passwordHash # calls[p].params.password
                  /\ resp'.user = u
             /\ resp'.err = ErrNil
             /\ resp'.user.id # NoRow.id
             /\ resp'.user.email = resp'.email ]_vars

\* C17 witness: a signup with a date of birth and a phone number succeeded
C17_Witness ==
    /\ resp.op = "SignUp"
    /\ resp.err = ErrNil
    /\ resp.user \in users
    /\ resp.user.dateOfBirth # "nil"
    /\ resp.user.phoneNumber # NoPhone
    /\ resp.user.phoneNumber = resp.phoneNumber

\* C18: when the signing of the token fails during a login, the login fails
\* with the TokenGeneration error and returns the empty token.
C18_SignFailureIsTokenGeneration ==
    [][ \A body \in LoginBodies :
          ( /\ ReachesLogin(body)
            /\ resp'.op = "Login"
            /\ resp'.email = body.email
            /\ resp'.password = body.password
            /\ AuthHandlerLogin(body, ErrNil, ErrSigning) )
          => /\ resp'.err = ErrTokenGeneration
             /\ resp'.token = EmptyToken
             /\ resp'.token.signed = FALSE
             /\ resp'.steps = <<"GetUserByEmail", "verifyPassword",
                                "generateJWTToken">> ]_vars

\* C18 witness: a login of a registered user with the right password ended
\* with the TokenGeneration error
C18_Witness ==
    /\ resp.op = "Login"
    /\ resp.err = ErrTokenGeneration
    /\ resp.token = EmptyToken
    /\ \E r \in registered :
          /\ r.email = resp.email
          /\ r.password = resp.password
          /\ \E u \in LiveRowsWith(resp.email) : u.id = r.id

ErrorTexts ==
    {ErrUserAlreadyExists, ErrInvalidPassword, ErrUserNotFound,
     ErrTokenGeneration, ErrNoRows, ErrUniqueViolation, ErrStorage,
     ErrDeadline, ErrPasswordTooLong, ErrMismatchedHashAndPassword, ErrSigning}

\* C19: a signup that failed with UserAlreadyExists is answered 409; every
\* other error of signup, and every error of login other than UserNotFound
\* and InvalidPassword, is answered 500 with one fixed message per handler
\* that is not the text of any error.
C19_ErrorsMapTo409Or500 ==
    /\ (resp.op = "SignUp" /\ resp.err = ErrUserAlreadyExists)
          => resp.code = 409
    /\ (resp.op = "SignUp" /\ resp.err \notin {ErrNil, ErrUserAlreadyExists})
          => /\ resp.code = 500
             /\ resp.message = "Failed to create user"
    /\ ( /\ resp.op = "Login"
         /\ resp.err \notin {ErrNil, ErrUserNotFound, ErrInvalidPassword} )
          => /\ resp.code = 500
             /\ resp.message = "Failed to authenticate user"
    /\ resp.code = 500 => /\ resp.message \notin ErrorTexts
                          /\ resp.body = NoBody
                          /\ resp.token = EmptyToken

\* C19 witness: a login stopped by a store fault was answered 500
C19_Witness ==
    /\ resp.op = "Login"
    /\ resp.err \in FaultErrors
    /\ resp.code = 500
    /\ resp.message = "Failed to authenticate user"

BusinessErrors == {ErrUserAlreadyExists, ErrUserNotFound, ErrInvalidPassword}

\* C20: when the caller's deadline aborts the store call of a signup or of a
\* login, the service returns the store's error itself, never
\* UserAlreadyExists, UserNotFound or InvalidPassword, and no row and no
\* token comes with it.
C20_DeadlineIsGenericError ==
    [][ /\ \A p \in Procs, body \in SignUpBodies :
             ( /\ ReachesSignUp(body)
               /\ SignUpStep(p, body, ErrDeadline) )
             => /\ resp'.err = ErrDeadline
                /\ resp'.err \notin BusinessErrors
                /\ resp'.user = NoRow
                /\ users' = users
        /\ \A p \in Procs :
             ( /\ calls[p].pc = "CreateUser"
               /\ AuthHandlerSignUpCreate(p, ErrDeadline) )
             => /\ resp'.err = ErrDeadline
                /\ resp'.err \notin BusinessErrors
                /\ resp'.user = NoRow
                /\ users' = users
        /\ \A body \in LoginBodies :
             ( /\ ReachesLogin(body)
               /\ LoginStep(body, ErrDeadline) )
             => /\ resp'.err = ErrDeadline
                /\ resp'.err \notin BusinessErrors
                /\ resp'.token = EmptyToken ]_vars

\* C20 witness: the deadline expired in the lookup of a login for a
\* registered, non-deleted user
C20_Witness ==
    /\ resp.op = "Login"
    /\ resp.err = ErrDeadline
    /\ resp.steps = <<"GetUserByEmail">>
    /\ LiveRowsWith(resp.email) # {}

\* C21: the service is stateless: no step changes the repository reference,
\* the signing key or the validity window, and a login, whether it succeeds
\* or fails, leaves the users table and the pending signups as they were.
C21_ServiceIsStateless ==
    [][ /\ svc' = svc
        /\ svc' = NewService
        /\ \A body \in LoginBodies, fault \in StoreFaults :
              LoginStep(body, fault) => /\ users' = users
                                        /\ calls' = calls ]_vars

\* C21 witness: logins have failed at the password and the user's row is
\* still there, not deleted, and the in-process state is the initial one
C21_Witness ==
    /\ resp.op = "Login"
    /\ resp.err = ErrInvalidPassword
    /\ \E u \in LiveRowsWith(resp.email) :
          verifyPassword(u.passwordHash, resp.password) # ErrNil
    /\ svc = NewService

IsPrefix(s, t) ==
    /\ Len(s) <= Len(t)
    /\ \A i \in 1..Len(s) : s[i] = t[i]

SignUpOrder == <<"UserExistsByEmail", "hashPassword", "CreateUser">>
LoginOrder == <<"GetUserByEmail", "verifyPassword", "generateJWTToken">>

\* C23: the steps of one signup are, in this order and each at most once,
\* the existence check, the hashing and the create, and those of one login
\* the lookup, the verification and the token generation; a call stops at
\* the step that fails, and only a call that ran all three steps succeeds.
C23_StepsInOrderNoRetry ==
    /\ resp.op = "SignUp" =>
          /\ IsPrefix(resp.steps, SignUpOrder)
          /\ resp.err = ErrNil /\ resp.code = 201 => resp.steps = SignUpOrder
          /\ Len(resp.steps) \in {1, 2} => resp.err # ErrNil
    /\ resp.op = "Login" =>
          /\ IsPrefix(resp.steps, LoginOrder)
          /\ resp.err = ErrNil /\ resp.code = 200 => resp.steps = LoginOrder
          /\ Len(resp.steps) \in {1, 2} => resp.err # ErrNil
    /\ \A p \in Procs : calls[p].pc = "CreateUser" =>
          /\ calls[p].hashedPassword # NoHash
          /\ calls[p].params # NoParams

\* C23 witness: a signup ran its three steps and failed in the last one
\* while another signup stands between its hashing and its create
C23_Witness ==
    /\ resp.op = "SignUp"
    /\ resp.steps = SignUpOrder
    /\ resp.err # ErrNil
    /\ \E p \in Procs : calls[p].pc = "CreateUser"

\* C24: a request whose body does not decode or does not pass the validation
\* is answered 400 without any step of the service or the store, and the
\* service runs only for bodies that decoded and passed: name lengths 2..100,
\* a well-formed email, a password of 8..72 bytes (login: non-empty) and an
\* E.164 phone number when one is given.
C24_ServiceOnlyAfterValidation ==
    /\ [](/\ resp.steps # <<>> => resp.code # 400
          /\ ( /\ resp.op = "SignUp"
               /\ \/ ~IsEmail(resp.email)
                  \/ resp.password.len < 8
                  \/ resp.password.len > 72
                  \/ resp.phoneNumber \notin Phones \cup {NoPhone} )
             => resp.code = 400 /\ resp.steps = <<>>
          /\ ( /\ resp.op = "Login"
               /\ (~IsEmail(resp.email) \/ resp.password.len = 0) )
             => resp.code = 400 /\ resp.steps = <<>>
          /\ \A p \in Procs : calls[p].pc = "CreateUser" =>
                /\ Len(calls[p].params.firstName) \in 2..100
                /\ Len(calls[p].params.lastName) \in 2..100
                /\ IsEmail(calls[p].params.email)
                /\ calls[p].params.password.len \in 8..72
                /\ calls[p].params.phoneNumber \in Phones \cup {NoPhone})
    /\ [][ /\ \A p \in Procs, body \in SignUpBodies :
                ( /\ \/ body.malformed
                     \/ Len(body.firstName) < 2
                     \/ ~IsEmail(body.email)
                     \/ body.password.len \notin 8..72
                     \/ body.phoneNumber \notin Phones \cup {NoPhone}
                  /\ SignUpStep(p, body, ErrNil) )
                => /\ resp'.code = 400
                   /\ resp'.steps = <<>>
                   /\ resp'.user = NoRow
                   /\ users' = users
                   /\ calls' = calls
           /\ \A body \in LoginBodies :
                ( /\ \/ body.malformed
                     \/ ~IsEmail(body.email)
                     \/ body.password.len = 0
                  /\ LoginStep(body, ErrNil) )
                => /\ resp'.code = 400
                   /\ resp'.steps = <<>>
                   /\ resp'.token = EmptyToken
                   /\ users' = users ]_vars

\* C24 witness: with a user registered, a signup whose password is one byte
\* short of the minimum was answered 400 and nothing was called
C24_Witness ==
    /\ resp.op = "SignUp"
    /\ resp.password = Q7
    /\ resp.code = 400
    /\ resp.steps = <<>>
    /\ users # {}

\* C25: for every successful login the expires_at of the response is the
\* expiry time embedded in the token of the same response (compared at the
\* token's resolution of one second).
C25_ExpiresAtIsTokenExpiry ==
    ( /\ resp.op = "Login"
      /\ resp.code = 200
      /\ resp.err = ErrNil )
    => NewNumericDate(resp.expiresAt) = resp.token.exp

\* C26: for every request that passed the trace middleware, the X-Trace-ID
\* response header and the trace ID of the context are the same value: the
\* incoming X-Trace-ID when it is not empty, otherwise the generated ID; the
\* request ID of the context is the incoming X-Request-ID when that is not
\* empty, otherwise the trace ID.
C26_TraceIDHeaderMatchesContext ==
    trace.seen =>
        /\ trace.responseHeader = trace.ctxTraceID
        /\ trace.ctxTraceID # EmptyHeader
        /\ trace.xTraceID # EmptyHeader => trace.ctxTraceID = trace.xTraceID
        /\ trace.xTraceID = EmptyHeader =>
              /\ trace.ctxTraceID = trace.generated
              /\ trace.generated \in FreshIDs
        /\ trace.xRequestID # EmptyHeader =>
              trace.ctxRequestID = trace.xRequestID
        /\ trace.xRequestID = EmptyHeader =>
              trace.ctxRequestID = trace.ctxTraceID

\* C26 witness: a request with an X-Trace-ID and without an X-Request-ID
\* passed the middleware
C26_Witness ==
    /\ trace.seen
    /\ trace.xTraceID # EmptyHeader
    /\ trace.xRequestID = EmptyHeader
    /\ trace.ctxRequestID = trace.xTraceID
    /\ trace.responseHeader = trace.xTraceID

====
